---------------------------- MODULE Spec2Model ----------------------------
(***************************************************************************)
(* Model of assembly.py: the kinematic constraint solver (Assembly), the   *)
(* concrete two-gear/two-link mechanism (AssemblyA), the feasibility       *)
(* validator, the curve tracer, the perturbation helpers and the           *)
(* design-space sampler (AssemblyA_Sampler).                               *)
(*                                                                         *)
(* Lengths, radii and coordinates are integers in hundredths ("centi"):    *)
(* every value the perturbation helpers store is round(..., 2).  A value   *)
(* before rounding is in thousandths ("milli").  Angles are exact          *)
(* rationals <<numerator, denominator>> in degrees.                        *)
(***************************************************************************)
EXTENDS Integers, Sequences, FiniteSets, TLC

(***************************************************************************)
(* Bounds of the model.                                                    *)
(***************************************************************************)
NumParams == 2
MaxPoints == 3
MaxIds == 2
MaxDb == 2
DrawStep == 125
MaxTarget == 2
MaxAround == 2

(***************************************************************************)
(* Program constants.                                                      *)
(***************************************************************************)
RequiredInitArgs == 2
ParseConfigInitArgs == 1
FullTurn == 360
MinRadius == 10
MinLength == 10
HalfUnit == 50
OfirScoreTenths == 15
DefaultGamma == 10
DefaultDiffVal == 50
ToleranceInv == 10000

VARIABLES
    id_counter,       \* Assembly.id_counter (class attribute)
    ctor,             \* outcome of the last construction
    ctor_solves,      \* update_state calls made by the last construction
    mech_id,          \* self.id of the mechanism (NoId: attribute never set)
    cur_state,        \* self.cur_state: free parameter -> value
    phase,            \* the actuator's phase
    res,              \* the last result object returned by minimize
    ret,              \* the last value returned by update_state
    config,           \* the declarative configuration handed to AssemblyA
    connections,      \* self.connections as built by _parse_config
    red_point,        \* self.red_point_component and the local point queried
    tr_pc,            \* position inside get_assembly_curve
    tr_n,             \* number_of_points
    tr_i,             \* loop index i
    assembly_curve,   \* the list being built
    tr_events,        \* history of the running trace
    tr_phase0,        \* the phase when the trace started
    call,             \* the last finished call of a helper: name, arguments, result
    sp,               \* the running call of sample_position
    sampler,          \* the AssemblyA_Sampler's own settings
    database,         \* self.database
    curve_database,   \* self.curve_database
    sm                \* the running operation of the sampler

solverVars == <<id_counter, ctor, ctor_solves, mech_id, cur_state, phase, res, ret,
                tr_pc, tr_n, tr_i, assembly_curve, tr_events, tr_phase0>>
builderVars == <<config, connections, red_point>>
explorerVars == <<call, sp, sampler, database, curve_database, sm>>
samplerVars == <<sampler, database, curve_database, sm>>

----------------------------------------------------------------------------
(***************************************************************************)
(* Exact rational arithmetic for angles.                                   *)
(***************************************************************************)
RECURSIVE Gcd(_, _)
Gcd(a, b) == IF b = 0 THEN a ELSE Gcd(b, a % b)

Abs(x) == IF x < 0 THEN -x ELSE x

RatNorm(q) ==
    LET g == Gcd(Abs(q[1]), q[2])
    IN  IF g = 0 THEN <<0, 1>> ELSE <<q[1] \div g, q[2] \div g>>

RatAdd(a, b) == RatNorm(<<a[1] * b[2] + b[1] * a[2], a[2] * b[2]>>)

RatMul(k, a) == RatNorm(<<k * a[1], a[2]>>)

RatOfInt(k) == <<k, 1>>

----------------------------------------------------------------------------
(***************************************************************************)
(* Assembly: the parameter index, the state vector and update_state.       *)
(***************************************************************************)
NoId == -1

Values == {0, 1}

\* the keys of free_params_in_assembly(), in enumeration order
Params == 1 .. NumParams

Slots == 0 .. (NumParams - 1)

\* param_index = {p: i for i, p in enumerate(self.free_params_in_assembly())}
param_index == [p \in Params |-> p - 1]

StateVectors == [Params -> Values]

Arrays == [Slots -> Values]

\* what scipy's minimize may hand back: its own convergence flag and a point
MinimizeResults == [success : BOOLEAN, x : Arrays]

NoResult == [success |-> FALSE, x |-> [i \in Slots |-> 0]]

get_cur_state_array(cs) ==
    [i \in Slots |-> cs[CHOOSE p \in Params : param_index[p] = i]]

update_cur_state_partial(cs, new_state_array) ==
    [p \in Params |-> IF param_index[p] = 0 THEN new_state_array[param_index[p]]
                      ELSE cs[p]]

update_cur_state_from_array(cs, new_state_array) ==
    [p \in Params |-> new_state_array[param_index[p]]]

\* update_state: the state after the call and the value returned
update_state(cs, r) ==
    IF r.success
    THEN [state |-> update_cur_state_from_array(cs, r.x), ret |-> "True"]
    ELSE [state |-> cs, ret |-> "False"]

\* Assembly.__init__ binds connection_list and components positionally
InitArgsBind(npos) == npos >= RequiredInitArgs

\* the pose of the marked component read through the committed state
get_red_point_position(cs) == get_cur_state_array(cs)

\* Actuator.turn(angle)
turn(ph, angle) == RatAdd(ph, angle)

\* self.con_list: one connection per free parameter, holding it to a target
con_list == [k \in Params |-> [free_params |-> <<k>>, target |-> k % 2]]

\* con.get_constraint()(*args): the residual terms of connection k, here the
\* deviation of its parameter from the target
get_constraint(k, args) == <<args[1] - con_list[k].target>>

RECURSIVE sum(_)
sum(result) == IF result = <<>> THEN 0 ELSE result[1] + sum(Tail(result))

\* the terms collected by the loop of assembly_const over the first k connections
RECURSIVE ConstTerms(_, _)
ConstTerms(k, param_list) ==
    IF k = 0 THEN <<>>
    ELSE ConstTerms(k - 1, param_list)
           \o get_constraint(k, [j \in 1 .. Len(con_list[k].free_params) |->
                                   param_list[param_index[con_list[k].free_params[j]]]])

\* self.const: the raw sum of every connection's residual terms
assembly_const(param_list) == sum(ConstTerms(NumParams, param_list))

\* abs(f) <= self.tolerance, tol = 1e-4
WithinTolerance(f) == Abs(f) * ToleranceInv <= 1

----------------------------------------------------------------------------
(***************************************************************************)
(* AssemblyA: the declarative configuration and _parse_config.             *)
(***************************************************************************)
Vec(x, y, z) == <<x, y, z>>

\* return_prototype's configuration, in hundredths
Prototype ==
    [ gear1_init_parameters  |-> [radius |-> 200],
      stick1_init_parameters |-> [length |-> 800],
      gear2_init_parameters  |-> [radius |-> 100],
      stick2_init_parameters |-> [length |-> 600],
      gear1_fixed_position |-> Vec(0, 0, 0),
      gear2_fixed_position |-> Vec(600, 0, 0),
      gear1_fixed_orientation |-> Vec(0, 0, 0),
      gear2_fixed_orientation |-> Vec(0, 0, 0),
      gear1_stick1_joint_location |-> Vec(100, 100, 0),
      stick1_gear1_joint_location |-> Vec(0, 0, 0),
      gear2_stick2_joint_location |-> Vec(-50, -50, 0),
      stick2_gear2_joint_location |-> Vec(0, 0, 0),
      stick1_stick2_joint_location |-> Vec(400, 0, 0),
      stick2_stick1_joint_location |-> Vec(600, 0, 0) ]

\* self.components[k] of _parse_config (k counts from 0 as in the source)
Component(k) == <<"gear1", "stick1", "gear2", "stick2">>[k + 1]

PhaseConnection(a, b) ==
    [type |-> "Phase", a |-> a, b |-> b, p |-> Vec(0, 0, 0), q |-> Vec(0, 0, 0)]

FixedConnection(c, position, orientation) ==
    [type |-> "Fixed", a |-> c, b |-> "world", p |-> position, q |-> orientation]

PinConnection(c1, c2, joint1, joint2) ==
    [type |-> "Pin", a |-> c1, b |-> c2, p |-> joint1, q |-> joint2]

\* self.connections of _parse_config
ParseConnections(cfg) ==
    << PhaseConnection("actuator", Component(0)),
       PhaseConnection(Component(0), Component(2)),
       FixedConnection(Component(0), cfg.gear1_fixed_position,
                       cfg.gear1_fixed_orientation),
       FixedConnection(Component(0), cfg.gear2_fixed_position,
                       cfg.gear2_fixed_orientation),
       PinConnection(Component(0), Component(1), cfg.gear1_stick1_joint_location,
                     cfg.stick1_gear1_joint_location),
       PinConnection(Component(2), Component(3), cfg.gear2_stick2_joint_location,
                     cfg.stick2_gear2_joint_location),
       PinConnection(Component(1), Component(3), cfg.stick1_stick2_joint_location,
                     cfg.stick1_stick2_joint_location) >>

\* self.red_point_component and the local point get_red_point_position maps
ParseRedPoint(cfg) ==
    [component |-> Component(1),
     local |-> Vec(cfg.stick1_init_parameters.length, 0, 0)]

NoRedPoint == [component |-> "none", local |-> Vec(0, 0, 0)]

NoCall == [fn |-> "none", args |-> <<>>, out |-> <<>>]

\* AssemblyA_Sampler(): number_of_points=3, num_of_samples_around=2
DefaultSampler == [number_of_points |-> 3, num_of_samples_around |-> 2]

SmIdle == [op |-> "none", pc |-> "idle", min_samples_number |-> 0,
           num_of_samples_around |-> 0, cur_database_len |-> 0, raised |-> "none"]

SpIdle == [pc |-> "idle", loc |-> Vec(0, 0, 0), i |-> 0, new_pos |-> 0,
           diff_val |-> 0, num_of_axis |-> 0, enable_negative |-> TRUE,
           redrawn |-> FALSE, target |-> "none"]

----------------------------------------------------------------------------
(***************************************************************************)
(* The solver specification: a client builds a mechanism, re-solves it,    *)
(* and traces its curve.                                                   *)
(***************************************************************************)
\* no mechanism has been built and no trace is running
NoMechanism ==
    /\ id_counter = 0
    /\ ctor = "none"
    /\ ctor_solves = 0
    /\ mech_id = NoId
    /\ cur_state = [p \in Params |-> 0]
    /\ phase = RatOfInt(0)
    /\ res = NoResult
    /\ ret = "none"
    /\ tr_pc = "idle"
    /\ tr_n = 0
    /\ tr_i = 0
    /\ assembly_curve = <<>>
    /\ tr_events = <<>>
    /\ tr_phase0 = RatOfInt(0)

\* AssemblyA_Sampler.__init__ with its defaults and no helper running
FreshExplorer ==
    /\ call = NoCall
    /\ sp = SpIdle
    /\ sampler = DefaultSampler
    /\ database = <<>>
    /\ curve_database = <<>>
    /\ sm = SmIdle

SolverInit ==
    /\ NoMechanism
    /\ config = Prototype
    /\ connections = <<>>
    /\ red_point = NoRedPoint
    /\ FreshExplorer

\* Assembly.__init__ entered with npos positional arguments after self
AssemblyInitCall(npos) ==
    IF InitArgsBind(npos)
    THEN \E s0 \in StateVectors, r \in MinimizeResults :
            LET u == update_state(s0, r)
            IN  /\ res' = r
                /\ ret' = u.ret
                /\ cur_state' = u.state
                /\ ctor_solves' = 1
                /\ IF u.ret = "True"
                   THEN /\ ctor' = "built"
                        /\ mech_id' = id_counter
                        /\ id_counter' = id_counter + 1
                   ELSE /\ ctor' = "raised_solve"
                        /\ mech_id' = NoId
                        /\ id_counter' = id_counter
    ELSE /\ ctor' = "raised_type"
         /\ ctor_solves' = 0
         /\ mech_id' = NoId
         /\ res' = NoResult
         /\ ret' = "none"
         /\ UNCHANGED <<id_counter, cur_state>>

\* a client (or a subclass) calls Assembly.__init__(connection_list, components)
AssemblyInit ==
    /\ ctor # "raised_type"
    /\ tr_pc = "idle"
    /\ id_counter < MaxIds
    /\ AssemblyInitCall(RequiredInitArgs)
    /\ phase' = RatOfInt(0)
    /\ UNCHANGED <<tr_pc, tr_n, tr_i, assembly_curve, tr_events, tr_phase0>>
    /\ UNCHANGED <<builderVars, explorerVars>>

UpdateState ==
    /\ ctor = "built"
    /\ tr_pc = "idle"
    /\ \E r \in MinimizeResults :
          LET u == update_state(cur_state, r)
          IN  /\ res' = r
              /\ ret' = u.ret
              /\ cur_state' = u.state
    /\ UNCHANGED <<id_counter, ctor, ctor_solves, mech_id, phase,
                   tr_pc, tr_n, tr_i, assembly_curve, tr_events, tr_phase0>>
    /\ UNCHANGED <<builderVars, explorerVars>>
\* the configurations a client hands to AssemblyA in the solver specification
BuilderConfigs ==
    { Prototype,
      [Prototype EXCEPT !.stick1_init_parameters = [length |-> 300]],
      [Prototype EXCEPT !.gear2_fixed_position = Vec(500, 100, 0),
                        !.stick1_stick2_joint_location = Vec(600, 0, 0)] }

\* AssemblyA(config): _parse_config, then Assembly.__init__(self, self.connections)
AssemblyAInit ==
    /\ ctor # "raised_type"
    /\ tr_pc = "idle"
    /\ \E cfg \in BuilderConfigs :
          /\ config' = cfg
          /\ connections' = ParseConnections(cfg)
          /\ red_point' = ParseRedPoint(cfg)
    /\ phase' = RatOfInt(0)
    /\ AssemblyInitCall(ParseConfigInitArgs)
    /\ UNCHANGED <<tr_pc, tr_n, tr_i, assembly_curve, tr_events, tr_phase0>>
    /\ UNCHANGED explorerVars

----------------------------------------------------------------------------
(***************************************************************************)
(* get_assembly_curve(assembly, number_of_points), one action per          *)
(* statement of its loop body.                                             *)
(***************************************************************************)
Event(ev, ok) == [ev |-> ev, ok |-> ok, phase |-> phase', state |-> cur_state']

\* the angle handed to actuator.turn
TurnAngle(n) == RatNorm(<<FullTurn, n>>)

RangeDoneShort(i, n) == i >= n - 1

\* for i in range(number_of_points): exhausted
RangeDone(i, n) == i >= n

TraceStart ==
    /\ ctor = "built"
    /\ tr_pc = "idle"
    /\ \E n \in 0 .. MaxPoints : tr_n' = n
    /\ tr_i' = 0
    /\ assembly_curve' = <<>>
    /\ tr_events' = <<>>
    /\ tr_phase0' = phase
    /\ tr_pc' = "loop"
    /\ UNCHANGED <<id_counter, ctor, ctor_solves, mech_id, cur_state, phase, res, ret>>
    /\ UNCHANGED <<builderVars, explorerVars>>

TraceTurn ==
    /\ tr_pc = "loop"
    /\ ~RangeDone(tr_i, tr_n)
    /\ phase' = turn(phase, TurnAngle(tr_n))
    /\ tr_pc' = "solve"
    /\ UNCHANGED <<id_counter, ctor, ctor_solves, mech_id, cur_state, res, ret,
                   tr_n, tr_i, assembly_curve, tr_phase0>>
    /\ tr_events' = Append(tr_events, Event("turn", TRUE))
    /\ UNCHANGED <<builderVars, explorerVars>>

\* assembly.update_state(): the value returned is dropped
TraceSolve ==
    /\ tr_pc = "solve"
    /\ \E r \in MinimizeResults :
          LET u == update_state(cur_state, r)
          IN  /\ res' = r
              /\ ret' = u.ret
              /\ cur_state' = u.state
    /\ tr_pc' = "record"
    /\ UNCHANGED <<id_counter, ctor, ctor_solves, mech_id, phase,
                   tr_n, tr_i, assembly_curve, tr_phase0>>
    /\ tr_events' = Append(tr_events, Event("solve", res'.success))
    /\ UNCHANGED <<builderVars, explorerVars>>

TraceRecord ==
    /\ tr_pc = "record"
    /\ assembly_curve' = Append(assembly_curve, get_red_point_position(cur_state))
    /\ tr_i' = tr_i + 1
    /\ tr_pc' = "loop"
    /\ UNCHANGED <<id_counter, ctor, ctor_solves, mech_id, cur_state, phase, res, ret,
                   tr_n, tr_phase0>>
    /\ tr_events' = Append(tr_events, Event("record", TRUE))
    /\ UNCHANGED <<builderVars, explorerVars>>

\* return assembly_curve
TraceReturn ==
    /\ tr_pc = "loop"
    /\ RangeDone(tr_i, tr_n)
    /\ tr_pc' = "done"
    /\ UNCHANGED <<id_counter, ctor, ctor_solves, mech_id, cur_state, phase, res, ret,
                   tr_n, tr_i, assembly_curve, tr_events, tr_phase0>>
    /\ UNCHANGED <<builderVars, explorerVars>>

vars == <<id_counter, ctor, ctor_solves, mech_id, cur_state, phase, res, ret,
          config, connections, red_point,
          tr_pc, tr_n, tr_i, assembly_curve, tr_events, tr_phase0,
          call, sp, sampler, database, curve_database, sm>>

SolverNext ==
    \/ AssemblyInit
    \/ AssemblyAInit
    \/ UpdateState
    \/ TraceStart
    \/ TraceTurn
    \/ TraceSolve
    \/ TraceRecord
    \/ TraceReturn

SpecSolver == SolverInit /\ [][SolverNext]_vars

----------------------------------------------------------------------------
(***************************************************************************)
(* Properties of the solver, the builder and the tracer.                   *)
(***************************************************************************)
SolveEvents == {k \in 1 .. Len(tr_events) : tr_events[k].ev = "solve"}

FailedSolves == {k \in SolveEvents : ~tr_events[k].ok}

C2_BuildSolvesOnce ==
    connections # <<>> =>
        /\ ctor_solves = 1
        /\ ctor \in {"built", "raised_solve"}
        /\ ctor = "built" => (res.success /\ mech_id = id_counter - 1)
        /\ ctor = "raised_solve" => (~res.success /\ mech_id = NoId)

\* C3: a failed re-solve aborts the trace: no position is recorded after it
\* and no curve is returned.
C3_TraceAbortsOnFailedSolve ==
    \A k \in FailedSolves :
        /\ tr_pc # "done"
        /\ \A j \in (k + 1) .. Len(tr_events) : tr_events[j].ev # "record"

\* C4: a returned trace of n >= 1 steps holds n positions in step order; the
\* phase was advanced n times by 360/n, one full turn in all, and exactly one
\* re-solve separates each advance from the recording of that step.
C4_TraceShape ==
    (tr_pc = "done" /\ tr_n >= 1) =>
        /\ Len(assembly_curve) = tr_n
        /\ Len(tr_events) = 3 * tr_n
        /\ phase = RatAdd(tr_phase0, RatOfInt(FullTurn))
        /\ \A k \in 0 .. (tr_n - 1) :
              /\ tr_events[3 * k + 1].ev = "turn"
              /\ tr_events[3 * k + 1].phase
                    = RatAdd(tr_phase0, RatMul(k + 1, RatNorm(<<FullTurn, tr_n>>)))
              /\ tr_events[3 * k + 2].ev = "solve"
              /\ tr_events[3 * k + 3].ev = "record"
              /\ assembly_curve[k + 1]
                    = get_red_point_position(tr_events[3 * k + 2].state)

\* a returned trace of at least two steps whose positions differ
C4_Witness ==
    /\ tr_pc = "done"
    /\ tr_n >= 2
    /\ Len(assembly_curve) = tr_n
    /\ assembly_curve[1] # assembly_curve[2]

\* the topology the builder is to produce from cfg
FixedTopology(cfg) ==
    << PhaseConnection("actuator", "gear1"),
       PhaseConnection("gear1", "gear2"),
       FixedConnection("gear1", cfg.gear1_fixed_position, cfg.gear1_fixed_orientation),
       FixedConnection("gear2", cfg.gear2_fixed_position, cfg.gear2_fixed_orientation),
       PinConnection("gear1", "stick1", cfg.gear1_stick1_joint_location,
                     cfg.stick1_gear1_joint_location),
       PinConnection("gear2", "stick2", cfg.gear2_stick2_joint_location,
                     cfg.stick2_gear2_joint_location),
       PinConnection("stick1", "stick2", cfg.stick1_stick2_joint_location,
                     cfg.stick2_stick1_joint_location) >>

\* C10: the mechanism built from a configuration has exactly the fixed
\* topology (each gear pinned to its own anchor, link1's attachment point
\* joined to link2's) and its marked point is the outer tip of link1.
C10_FixedTopology ==
    connections # <<>> =>
        /\ connections = FixedTopology(config)
        /\ red_point = [component |-> "stick1",
                        local |-> Vec(config.stick1_init_parameters.length, 0, 0)]

\* C11: a mechanism whose construction succeeded, and every state committed
\* by a successful re-solve, has its constraint objective (the raw sum of the
\* connections' residual terms) within the tolerance of zero.
C11_ObjectiveWithinTolerance ==
    (ctor = "built" /\ ret = "True" /\ tr_pc # "solve") =>
        WithinTolerance(assembly_const(get_cur_state_array(cur_state)))

----------------------------------------------------------------------------
(***************************************************************************)
(* The helpers of the explorer: perturbation, validation, dissimilarity.   *)
(***************************************************************************)
\* v[i] with the source's indices, which count from 0
At(v, i) == v[i + 1]

SetAt(v, i, x) == [v EXCEPT ![i + 1] = x]

Max(a, b) == IF a >= b THEN a ELSE b

\* round(x, 2) of a value in thousandths: hundredths, ties to the even one
Round2(m) ==
    LET q == m \div 10
        r == m % 10
    IN  IF r < 5 THEN q
        ELSE IF r > 5 THEN q + 1
        ELSE IF q % 2 = 0 THEN q ELSE q + 1

\* a value in hundredths as thousandths
Milli(c) == 10 * c

\* the values random.uniform(range) is drawn from, in thousandths
UniformDraws(range) ==
    {u \in range[1] .. range[2] : (u - range[1]) % DrawStep = 0} \cup {range[2]}

\* the two ends of the range only
CoarseDraws(range) == {range[1], range[2]}

sample_radius_unfloored(radius, diff_val, u) == Round2(Milli(radius) + u)

\* sample_radius_from_current with u the value random.uniform returned; both
\* branches round max(min_radius, radius + u) and differ in the range of u
sample_radius_from_current(radius, diff_val, u) ==
    Round2(Max(Milli(MinRadius), Milli(radius) + u))

\* the range random.uniform is called with by sample_radius_from_current
RadiusRange(radius, diff_val) ==
    IF radius < HalfUnit
    THEN <<-((diff_val * radius) \div 10), Milli(diff_val)>>
    ELSE <<-Milli(diff_val), Milli(diff_val)>>

sample_length_from_current(length, diff_val, u) ==
    Round2(Max(Milli(MinLength), Milli(length) + u))

LengthRange(length, diff_val) ==
    IF length < HalfUnit
    THEN <<-((diff_val * length) \div 10), Milli(diff_val)>>
    ELSE <<-Milli(diff_val), Milli(diff_val)>>

\* round(joint_location[i] + random.uniform(-diff_val, diff_val), 2)
NewPos(loc, i, u) == Round2(Milli(At(loc, i)) + u)

PositionRange(diff_val) == <<-Milli(diff_val), Milli(diff_val)>>

RECURSIVE SqrtBetween(_, _, _)
SqrtBetween(n, lo, hi) ==
    IF hi - lo <= 1 THEN lo
    ELSE LET mid == (lo + hi) \div 2
         IN  IF mid * mid <= n THEN SqrtBetween(n, mid, hi)
             ELSE SqrtBetween(n, lo, mid)

RECURSIVE SqrtUpper(_, _)
SqrtUpper(n, h) == IF h * h > n THEN h ELSE SqrtUpper(n, 2 * h)

\* the integer part of the square root
ISqrt(n) == SqrtBetween(n, 0, SqrtUpper(n, 1))

\* round(dis ** 0.5, 2) of a squared distance given in hundredths squared
RoundSqrt(n) ==
    LET r == ISqrt(n)
    IN  IF n - r * r > r THEN r + 1 ELSE r

points_distance(point1, point2) ==
    RoundSqrt((At(point1, 0) - At(point2, 0)) * (At(point1, 0) - At(point2, 0))
              + (At(point1, 1) - At(point2, 1)) * (At(point1, 1) - At(point2, 1))
              + (At(point1, 2) - At(point2, 2)) * (At(point1, 2) - At(point2, 2)))

is_vaild_inclusive(cfg) ==
    LET radius1 == cfg.gear1_init_parameters.radius
        radius2 == cfg.gear2_init_parameters.radius
        joint1 == cfg.gear1_stick1_joint_location
        joint2 == cfg.gear2_stick2_joint_location
        gears_dis == points_distance(cfg.gear1_fixed_position, cfg.gear2_fixed_position)
        stick2_len == cfg.stick2_init_parameters.length
        stick1_part_len == At(cfg.stick1_stick2_joint_location, 0)
    IN  IF cfg.stick1_init_parameters.length < At(cfg.stick1_stick2_joint_location, 0)
        THEN FALSE
        ELSE IF cfg.stick2_init_parameters.length < At(cfg.stick2_stick1_joint_location, 0)
        THEN FALSE
        ELSE IF At(joint1, 0) * At(joint1, 0) + At(joint1, 1) * At(joint1, 1)
                  >= radius1 * radius1
        THEN FALSE
        ELSE IF At(joint2, 0) * At(joint2, 0) + At(joint2, 1) * At(joint2, 1)
                  >= radius2 * radius2
        THEN FALSE
        ELSE IF gears_dis + radius1 + radius2 >= stick2_len + stick1_part_len
        THEN FALSE
        ELSE IF gears_dis - radius1 + stick1_part_len < stick2_len
        THEN FALSE
        ELSE TRUE

\* is_vaild_assembleA, on the configuration of the mechanism it is given
is_vaild_assembleA(cfg) ==
    LET radius1 == cfg.gear1_init_parameters.radius
        radius2 == cfg.gear2_init_parameters.radius
        joint1 == cfg.gear1_stick1_joint_location
        joint2 == cfg.gear2_stick2_joint_location
        gears_dis == points_distance(cfg.gear1_fixed_position, cfg.gear2_fixed_position)
        stick2_len == cfg.stick2_init_parameters.length
        stick1_part_len == At(cfg.stick1_stick2_joint_location, 0)
    IN  IF cfg.stick1_init_parameters.length < At(cfg.stick1_stick2_joint_location, 0)
        THEN FALSE
        ELSE IF cfg.stick2_init_parameters.length < At(cfg.stick2_stick1_joint_location, 0)
        THEN FALSE
        ELSE IF At(joint1, 0) * At(joint1, 0) + At(joint1, 1) * At(joint1, 1)
                  > radius1 * radius1
        THEN FALSE
        ELSE IF At(joint2, 0) * At(joint2, 0) + At(joint2, 1) * At(joint2, 1)
                  > radius2 * radius2
        THEN FALSE
        ELSE IF gears_dis + radius1 + radius2 >= stick2_len + stick1_part_len
        THEN FALSE
        ELSE IF gears_dis - radius1 + stick1_part_len < stick2_len
        THEN FALSE
        ELSE TRUE

\* the scorer is a stub: 1.5, in tenths
ofir_score(curve1, curve2) == OfirScoreTenths

RECURSIVE is_dissimilar_strict(_, _, _)
is_dissimilar_strict(curve, db, gamma) ==
    IF db = <<>> THEN TRUE
    ELSE IF ofir_score(curve, Head(db)) <= gamma THEN FALSE
    ELSE is_dissimilar_strict(curve, Tail(db), gamma)

RECURSIVE DissimilarFrom(_, _, _)
DissimilarFrom(curve, db, gamma) ==
    IF db = <<>> THEN TRUE
    ELSE IF ofir_score(curve, Head(db)) < gamma THEN FALSE
    ELSE DissimilarFrom(curve, Tail(db), gamma)

\* is_dissimilar(curve, database, gamma), gamma in tenths
is_dissimilar(curve, db, gamma) == DissimilarFrom(curve, db, gamma)

----------------------------------------------------------------------------
(***************************************************************************)
(* The helper specification: a client calls the helpers on inputs drawn    *)
(* from small sets.                                                        *)
(***************************************************************************)
\* radii and lengths handed to the perturbation helpers, in hundredths
Extents == {5, 10, 30, 49, 50, 200}

\* perturbation magnitudes: 0.5 (the sampler's) and 2 (the default)
DiffVals == {50, 200}

\* joint locations handed to sample_position
Locations == {Vec(400, 0, 0), Vec(20, -30, 0), Vec(-100, -50, 0)}

Gammas == {5, DefaultGamma, OfirScoreTenths, 20}

Curves == {<<x>> : x \in Arrays}

RECURSIVE SeqsUpTo(_, _)
SeqsUpTo(S, n) ==
    IF n = 0 THEN {<<>>}
    ELSE LET shorter == SeqsUpTo(S, n - 1)
         IN  shorter \cup {Append(q, x) : q \in shorter, x \in S}

\* configurations handed to the validator
ValidatorConfigs ==
    { [Prototype EXCEPT
          !.stick1_init_parameters = [length |-> l1],
          !.stick2_init_parameters = [length |-> l2],
          !.stick1_stick2_joint_location = Vec(j12, 0, 0),
          !.stick2_stick1_joint_location = Vec(j21, 0, 0),
          !.gear1_stick1_joint_location = g1,
          !.gear2_stick2_joint_location = g2,
          !.gear2_fixed_position = a2] :
        l1 \in {300, 800}, l2 \in {600, 900}, j12 \in {400, 100}, j21 \in {600, 950},
        g1 \in {Vec(100, 100, 0), Vec(200, 0, 0), Vec(200, 100, 0)},
        g2 \in {Vec(-50, -50, 0), Vec(-100, -50, 0)},
        a2 \in {Vec(600, 0, 0), Vec(300, 400, 0), Vec(900, 0, 0)} }

HelperInit ==
    /\ NoMechanism
    /\ config = Prototype
    /\ connections = <<>>
    /\ red_point = NoRedPoint
    /\ FreshExplorer

\* the validator is handed a mechanism holding any of the configurations
ValidatorInit ==
    /\ NoMechanism
    /\ config \in ValidatorConfigs
    /\ connections = <<>>
    /\ red_point = NoRedPoint
    /\ FreshExplorer

\* is_vaild_assembleA(assemblyA) on the mechanism whose configuration is config
Validate ==
    /\ call.fn = "none"
    /\ call' = [fn |-> "is_vaild_assembleA", args |-> config,
                out |-> is_vaild_assembleA(config)]
    /\ UNCHANGED <<solverVars, builderVars, samplerVars, sp>>

SpecValidator == ValidatorInit /\ [][Validate]_vars

CallIsDissimilar ==
    /\ call.fn = "none"
    /\ sp.pc = "idle"
    /\ \E curve \in Curves, db \in SeqsUpTo(Curves, MaxDb), gamma \in Gammas :
          call' = [fn |-> "is_dissimilar",
                   args |-> [curve |-> curve, database |-> db, gamma |-> gamma],
                   out |-> is_dissimilar(curve, db, gamma)]
    /\ UNCHANGED <<solverVars, builderVars, samplerVars, sp>>

CallSampleRadius ==
    /\ call.fn = "none"
    /\ sp.pc = "idle"
    /\ \E radius \in Extents, diff_val \in DiffVals :
          \E u \in UniformDraws(RadiusRange(radius, diff_val)) :
             call' = [fn |-> "sample_radius_from_current",
                      args |-> [radius |-> radius, diff_val |-> diff_val, u |-> u],
                      out |-> sample_radius_from_current(radius, diff_val, u)]
    /\ UNCHANGED <<solverVars, builderVars, samplerVars, sp>>

CallSampleLength ==
    /\ call.fn = "none"
    /\ sp.pc = "idle"
    /\ \E length \in Extents, diff_val \in DiffVals :
          \E u \in UniformDraws(LengthRange(length, diff_val)) :
             call' = [fn |-> "sample_length_from_current",
                      args |-> [length |-> length, diff_val |-> diff_val, u |-> u],
                      out |-> sample_length_from_current(length, diff_val, u)]
    /\ UNCHANGED <<solverVars, builderVars, samplerVars, sp>>

----------------------------------------------------------------------------
(***************************************************************************)
(* sample_position(joint_location, diff_val, num_of_axis, enable_negative) *)
(* one action per statement; the list is changed in place.                 *)
(***************************************************************************)
\* while new_pos < 0, entered only if not enable_negative
MustRedraw(enable_negative, new_pos) == ~enable_negative /\ new_pos < 0

SamplePositionCall ==
    /\ call.fn = "none"
    /\ sp.pc = "idle"
    /\ \E loc \in Locations, n \in 0 .. 3, neg \in BOOLEAN :
          sp' = [pc |-> "for", loc |-> loc, i |-> 0, new_pos |-> 0,
                 diff_val |-> DefaultDiffVal, num_of_axis |-> n, enable_negative |-> neg,
                 redrawn |-> FALSE, target |-> "client"]
    /\ call' = NoCall
    /\ UNCHANGED <<solverVars, builderVars, samplerVars>>

\* new_pos = round(joint_location[i] + random.uniform(-diff_val, diff_val), 2)
SamplePositionDraw ==
    /\ sp.pc = "for"
    /\ ~RangeDone(sp.i, sp.num_of_axis)
    /\ \E u \in UniformDraws(PositionRange(sp.diff_val)) :
          sp' = [sp EXCEPT !.new_pos = NewPos(sp.loc, sp.i, u), !.pc = "while"]
    /\ UNCHANGED <<solverVars, builderVars, samplerVars, call>>

\* the body of while new_pos < 0
SamplePositionRedraw ==
    /\ sp.pc = "while"
    /\ MustRedraw(sp.enable_negative, sp.new_pos)
    /\ \E u \in UniformDraws(PositionRange(sp.diff_val)) :
          sp' = [sp EXCEPT !.new_pos = NewPos(sp.loc, sp.i, u), !.redrawn = TRUE]
    /\ UNCHANGED <<solverVars, builderVars, samplerVars, call>>

\* joint_location[i] = new_pos
SamplePositionStore ==
    /\ sp.pc = "while"
    /\ ~MustRedraw(sp.enable_negative, sp.new_pos)
    /\ sp' = [sp EXCEPT !.loc = SetAt(sp.loc, sp.i, sp.new_pos),
                        !.i = sp.i + 1, !.pc = "for"]
    /\ UNCHANGED <<solverVars, builderVars, samplerVars, call>>

\* return joint_location
SamplePositionReturn ==
    /\ sp.pc = "for"
    /\ RangeDone(sp.i, sp.num_of_axis)
    /\ call' = [fn |-> "sample_position",
                args |-> [num_of_axis |-> sp.num_of_axis,
                          enable_negative |-> sp.enable_negative,
                          redrawn |-> sp.redrawn],
                out |-> sp.loc]
    /\ sp' = SpIdle
    /\ UNCHANGED <<solverVars, builderVars, samplerVars>>

HelperNext ==
    \/ CallIsDissimilar
    \/ CallSampleRadius
    \/ CallSampleLength
    \/ SamplePositionCall
    \/ SamplePositionDraw
    \/ SamplePositionRedraw
    \/ SamplePositionStore
    \/ SamplePositionReturn

SpecHelpers == HelperInit /\ [][HelperNext]_vars

\* a single-threaded run executes the next statement whenever there is one,
\* and a value random.uniform can return that ends the loop is returned in
\* the end
FairHelpers ==
    /\ SpecHelpers
    /\ WF_vars(SamplePositionDraw)
    /\ WF_vars(SamplePositionRedraw)
    /\ WF_vars(SamplePositionRedraw /\ ~MustRedraw(sp'.enable_negative, sp'.new_pos))
    /\ WF_vars(SamplePositionStore)
    /\ WF_vars(SamplePositionReturn)

----------------------------------------------------------------------------
(***************************************************************************)
(* Properties of the helpers.                                              *)
(***************************************************************************)
\* C6: every retry loop is left after a bounded number of attempts: a
\* redraw loop that has been entered is eventually exited.
C6_RetryLoopsTerminate == (sp.pc = "while") ~> (sp.pc # "while")

\* C7: the filter accepts exactly when the score against every stored curve
\* is at least gamma; on an empty database it accepts; with the constant
\* scorer a non-empty database rejects iff the constant is below gamma and
\* accepts iff it is at least gamma.
C7_DissimilarFilter ==
    call.fn = "is_dissimilar" =>
        LET curve == call.args.curve
            db == call.args.database
            gamma == call.args.gamma
        IN  /\ call.out = (\A k \in 1 .. Len(db) :
                              ofir_score(curve, db[k]) >= gamma)
            /\ db = <<>> => call.out
            /\ db # <<>> =>
                  /\ ~call.out <=> OfirScoreTenths < gamma
                  /\ call.out <=> OfirScoreTenths >= gamma

\* a candidate rejected by a database of two curves
C7_Witness ==
    /\ call.fn = "is_dissimilar"
    /\ Len(call.args.database) = 2
    /\ call.args.gamma > OfirScoreTenths
    /\ ~call.out

\* the four rejection conditions of the validator, as the design states them
LinkShorterThanOffset(cfg) ==
    \/ cfg.stick1_init_parameters.length < cfg.stick1_stick2_joint_location[1]
    \/ cfg.stick2_init_parameters.length < cfg.stick2_stick1_joint_location[1]

JointOutsideGear(cfg) ==
    \/ cfg.gear1_stick1_joint_location[1] * cfg.gear1_stick1_joint_location[1]
         + cfg.gear1_stick1_joint_location[2] * cfg.gear1_stick1_joint_location[2]
         > cfg.gear1_init_parameters.radius * cfg.gear1_init_parameters.radius
    \/ cfg.gear2_stick2_joint_location[1] * cfg.gear2_stick2_joint_location[1]
         + cfg.gear2_stick2_joint_location[2] * cfg.gear2_stick2_joint_location[2]
         > cfg.gear2_init_parameters.radius * cfg.gear2_init_parameters.radius

AnchorDistance(cfg) == points_distance(cfg.gear1_fixed_position, cfg.gear2_fixed_position)

SticksTooShort(cfg) ==
    AnchorDistance(cfg) + cfg.gear1_init_parameters.radius + cfg.gear2_init_parameters.radius
       >= cfg.stick2_init_parameters.length + cfg.stick1_stick2_joint_location[1]

SticksTooLong(cfg) ==
    AnchorDistance(cfg) - cfg.gear1_init_parameters.radius
          + cfg.stick1_stick2_joint_location[1]
       < cfg.stick2_init_parameters.length

\* C8: the validator accepts exactly when none of the four rejection
\* conditions holds, performs no solve and changes nothing; it accepts the
\* reference configuration and rejects link1 length 3 with joint offset 4.
C8_Validator ==
    call.fn = "is_vaild_assembleA" =>
        /\ call.out = ~( \/ LinkShorterThanOffset(config)
                         \/ JointOutsideGear(config)
                         \/ SticksTooShort(config)
                         \/ SticksTooLong(config) )
        /\ call.args = config
        /\ ctor_solves = 0 /\ res = NoResult /\ ret = "none"
        /\ cur_state = [p \in Params |-> 0]
        /\ config = Prototype => call.out
        /\ ( /\ config.stick1_init_parameters.length = 300
             /\ config.stick1_stick2_joint_location[1] = 400 ) => ~call.out

\* the reference configuration, validated and accepted
C8_Witness ==
    /\ call.fn = "is_vaild_assembleA"
    /\ config = Prototype
    /\ call.out

----------------------------------------------------------------------------
(***************************************************************************)
(* sample_from_cur_assemblyA and the AssemblyA_Sampler.                    *)
(***************************************************************************)
\* the lists sample_position can return: each axis below num_of_axis is
\* redrawn until the loop condition lets it through
RECURSIVE SamplePositionResults(_, _, _, _, _)
SamplePositionResults(loc, i, diff_val, num_of_axis, enable_negative) ==
    IF RangeDone(i, num_of_axis) THEN {loc}
    ELSE UNION { SamplePositionResults(SetAt(loc, i, x), i + 1, diff_val,
                                       num_of_axis, enable_negative) :
                 x \in {y \in {NewPos(loc, i, u) :
                                 u \in CoarseDraws(PositionRange(diff_val))} :
                          ~MustRedraw(enable_negative, y)} }

\* sample_point: the vector of the point through sample_position, as a Point
sample_point(point, diff_val, num_of_axis) ==
    SamplePositionResults(point, 0, diff_val, num_of_axis, TRUE)

sample_gear_parameters_from_current(gear_param, diff_val) ==
    { [gear_param EXCEPT !.radius =
           Round2(Milli(sample_radius_from_current(gear_param.radius, diff_val, u)))] :
      u \in CoarseDraws(RadiusRange(gear_param.radius, diff_val)) }

sample_stick_parameters_from_current(stick_param, diff_val) ==
    { [stick_param EXCEPT !.length =
           Round2(Milli(sample_length_from_current(stick_param.length, diff_val, u)))] :
      u \in CoarseDraws(LengthRange(stick_param.length, diff_val)) }

\* the values the configuration dictionary can hold when sample_from_cur_assemblyA
\* reaches AssemblyA(config); the dictionary is the origin's own
sample_from_cur_assemblyA(cfg, gear_diff_val, stick_diff_val, position_diff_val) ==
    { [cfg EXCEPT
          !.gear1_init_parameters = g1,
          !.gear2_init_parameters = g2,
          !.stick1_init_parameters = s1,
          !.stick2_init_parameters = s2,
          !.gear1_stick1_joint_location = j1,
          !.gear2_stick2_joint_location = j2,
          !.stick1_stick2_joint_location = j12,
          !.stick2_stick1_joint_location = Vec(s2.length, 0, 0),
          !.gear1_fixed_position = f1,
          !.gear2_fixed_position = f2] :
        g1 \in sample_gear_parameters_from_current(cfg.gear1_init_parameters, gear_diff_val),
        g2 \in sample_gear_parameters_from_current(cfg.gear2_init_parameters, gear_diff_val),
        s1 \in sample_stick_parameters_from_current(cfg.stick1_init_parameters, stick_diff_val),
        s2 \in sample_stick_parameters_from_current(cfg.stick2_init_parameters, stick_diff_val),
        j1 \in SamplePositionResults(cfg.gear1_stick1_joint_location, 0,
                                     position_diff_val, 2, TRUE),
        j2 \in SamplePositionResults(cfg.gear2_stick2_joint_location, 0,
                                     position_diff_val, 2, TRUE),
        j12 \in SamplePositionResults(cfg.stick1_stick2_joint_location, 0,
                                      position_diff_val, 1, FALSE),
        f1 \in sample_point(cfg.gear1_fixed_position, position_diff_val, 1),
        f2 \in sample_point(cfg.gear2_fixed_position, position_diff_val, 1) }

\* if not num_of_samples_around: num_of_samples_around = self.num_of_samples_around
EffectiveAround(num_of_samples_around) ==
    IF num_of_samples_around = 0 THEN sampler.num_of_samples_around
    ELSE num_of_samples_around

\* the mechanisms a client hands to recursive_sample_assemblyA
OriginConfigs ==
    { Prototype, [Prototype EXCEPT !.stick1_stick2_joint_location = Vec(20, 0, 0)] }

SamplerInit ==
    /\ NoMechanism
    /\ config \in OriginConfigs
    /\ connections = <<>>
    /\ red_point = NoRedPoint
    /\ call = NoCall
    /\ sp = SpIdle
    /\ sampler \in [number_of_points : {DefaultSampler.number_of_points},
                    num_of_samples_around : 0 .. MaxAround]
    /\ database = <<>>
    /\ curve_database = <<>>
    /\ sm = SmIdle

\* AssemblyA(cfg) from inside the explorer: _parse_config, then Assembly.__init__
BuildAssemblyA(cfg) ==
    /\ config' = cfg
    /\ connections' = ParseConnections(cfg)
    /\ red_point' = ParseRedPoint(cfg)
    /\ phase' = RatOfInt(0)
    /\ AssemblyInitCall(ParseConfigInitArgs)

\* create_assemblyA_database up to its call of self.get_origin_assembly()
CreateDatabaseCall ==
    /\ sm.pc = "idle"
    /\ \E target \in 0 .. MaxTarget, around \in 0 .. MaxAround :
          sm' = [op |-> "create_assemblyA_database", pc |-> "get_origin",
                 min_samples_number |-> target,
                 num_of_samples_around |-> EffectiveAround(around),
                 cur_database_len |-> Len(database), raised |-> "none"]
    /\ UNCHANGED <<solverVars, builderVars, call, sp, sampler, database, curve_database>>

\* get_origin_assembly: create_assemblyA() -> return_prototype() -> AssemblyA(config);
\* the exception of the constructor is caught nowhere on the way up
GetOriginAssembly ==
    /\ sm.pc \in {"idle", "get_origin"}
    /\ BuildAssemblyA(Prototype)
    /\ sm' = [sm EXCEPT !.op = IF sm.pc = "idle" THEN "get_origin_assembly" ELSE sm.op,
                        !.pc = IF ctor' = "built" THEN "origin_built" ELSE "raised",
                        !.raised = IF ctor' = "raised_type" THEN "TypeError"
                                   ELSE IF ctor' = "raised_solve" THEN "Exception"
                                   ELSE "none"]
    /\ UNCHANGED <<tr_pc, tr_n, tr_i, assembly_curve, tr_events, tr_phase0>>
    /\ UNCHANGED <<call, sp, sampler, database, curve_database>>

\* recursive_sample_assemblyA(assemblyA, num_of_samples_around) on the mechanism
\* whose configuration is config: the first pass of the loop perturbs the
\* configuration in place and calls AssemblyA on it
RecursiveSample ==
    /\ sm.pc = "idle"
    /\ \E around \in 0 .. MaxAround :
          IF RangeDone(0, EffectiveAround(around))
          THEN /\ sm' = [sm EXCEPT !.op = "recursive_sample_assemblyA",
                                   !.pc = "returned",
                                   !.num_of_samples_around = EffectiveAround(around)]
               /\ call' = [fn |-> "recursive_sample_assemblyA", args |-> config,
                           out |-> <<>>]
               /\ UNCHANGED <<solverVars, builderVars>>
          ELSE /\ \E cfg \in sample_from_cur_assemblyA(config, DefaultDiffVal,
                                                       DefaultDiffVal, DefaultDiffVal) :
                     BuildAssemblyA(cfg)
               /\ sm' = [sm EXCEPT !.op = "recursive_sample_assemblyA",
                                   !.pc = IF ctor' = "built" THEN "sampled" ELSE "raised",
                                   !.num_of_samples_around = EffectiveAround(around),
                                   !.raised = IF ctor' = "raised_type" THEN "TypeError"
                                              ELSE IF ctor' = "raised_solve" THEN "Exception"
                                              ELSE "none"]
               /\ call' = [fn |-> "recursive_sample_assemblyA", args |-> config,
                           out |-> <<>>]
               /\ UNCHANGED <<tr_pc, tr_n, tr_i, assembly_curve, tr_events, tr_phase0>>
    /\ UNCHANGED <<sp, sampler, database, curve_database>>

SamplerNext ==
    \/ CreateDatabaseCall
    \/ GetOriginAssembly
    \/ RecursiveSample

SpecSampler == SamplerInit /\ [][SamplerNext]_vars

\* C5: the database build goes on until the target size is reached: it ends
\* only by returning, with at least the target number of mechanisms added,
\* every one of them with its curve.
C5_BuildReachesTarget ==
    (sm.op = "create_assemblyA_database" /\ sm.pc \in {"raised", "returned"}) =>
        /\ sm.pc = "returned"
        /\ Len(database) - sm.cur_database_len >= sm.min_samples_number
        /\ Len(curve_database) = Len(database)

\* C12: perturbing an origin leaves the origin's own configuration as it was
\* when recursive_sample_assemblyA was called with it, so every neighbor is
\* jittered from the origin's values and no stored configuration changes.
C12_OriginConfigUnchanged ==
    (sm.op = "recursive_sample_assemblyA" /\ call.fn = "recursive_sample_assemblyA") =>
        config = call.args

\* C13: whenever an operation of the sampler has returned, the mechanism list
\* and the curve list have the same length.
C13_ListsPaired ==
    sm.pc = "returned" => Len(database) = Len(curve_database)

\* C13: entries of both lists are only ever appended, never removed, replaced
\* or reordered.
C13_AppendOnly ==
    [][ /\ Len(database') >= Len(database)
        /\ SubSeq(database', 1, Len(database)) = database
        /\ Len(curve_database') >= Len(curve_database)
        /\ SubSeq(curve_database', 1, Len(curve_database)) = curve_database ]_vars

\* some operation has stored a mechanism or a curve
C13_SomethingStored == Len(database) > 0 \/ Len(curve_database) > 0

=============================================================================
